---- MODULE Spec2Model ----
(***************************************************************************)
(* Smart-Lamp: the SmartLamp controller of src/src/lamp.py together with   *)
(* the HardwareController of src/src/hardware.py it drives.                *)
(*                                                                         *)
(* The asyncio event loop runs one coroutine at a time and switches only   *)
(* at a real suspension (asyncio.sleep); awaiting set_lamp_state,          *)
(* set_color, set_brightness or set_mode never suspends.  Every action     *)
(* below is therefore one run of a coroutine from one suspension to the    *)
(* next.  The button monitor of hardware.py runs on threads of its own.    *)
(***************************************************************************)
EXTENDS Integers, Sequences, FiniteSets, TLC

VARIABLES
    phase,                  \* process life cycle: "constructed", "running", "down"
    is_running,             \* SmartLamp.is_running
    current_state,          \* SmartLamp.current_state (is_on, brightness, color, mode, auto_mode_enabled)
    last_user_interaction,  \* SmartLamp.last_user_interaction (NoTime = None)
    hw,                     \* hardware_controller: is_lamp_on, current_brightness, current_color
    snapshot,               \* contents of src/config/lamp_state.json ({} = no file)
    clock,                  \* datetime.now(), in minutes
    autoOffAwake,           \* _monitor_auto_off: TRUE when its sleep(60) has elapsed
    potLast,                \* _monitor_potentiometer: local last_brightness ({} = None)
    mlLoops,                \* number of live _monitor_ml_predictions coroutines
    flashes,                \* the _emergency_flash coroutines in progress, oldest first
    ticks,                  \* time.time() of the button-monitor thread, in units of 0.1 s
    last_button_press,      \* hardware_controller.last_button_press, per button
    pressCallbacks,         \* ghost: callbacks started since the button was last read HIGH
    cbThreads,              \* callback threads started by _monitor_buttons and not yet run
    ev,                     \* the event handled by the last step
    fx,                     \* side effects of the last step: hardware, snapshot and interaction-log writes
    ref,                    \* the lamp state obtained by applying every event, whole, in arrival order
    lastManual,             \* time of the last transition with trigger_type "manual" (NoTime = none yet)
    onSinceManual,          \* the lamp has been on ever since that transition
    budget,                 \* inputs the environment may still submit
    diskFails,              \* writing src/config/lamp_state.json raises (disk full, read-only)
    heldAtShutdown,         \* is_on, brightness, color and mode at the shutdown of the process before
    alive,                  \* the monitoring loops whose while loop has not ended
    actions,                \* DataLogger.actions, the logged user actions, oldest first
    models,                 \* PatternAnalyzer.models: per name, the model held ({} = none)
    scalers,                \* PatternAnalyzer.scalers: per name, the scaler held ({} = none)
    neo,                    \* NeoPixelController of src/app.py with its caller and its animation thread
    manual                  \* src/manual_control/lamp_controller.py: state, the PWM duty cycles, its threads

\* the stand-alone programs of the repository, which share nothing with SmartLamp
StandaloneVars == <<neo, manual>>

vars == <<phase, is_running, current_state, last_user_interaction, hw, snapshot,
          clock, autoOffAwake, potLast, mlLoops, flashes, ticks,
          last_button_press, pressCallbacks, cbThreads, ev, fx, ref, lastManual, onSinceManual,
          budget, diskFails, heldAtShutdown, alive, actions, models, scalers, StandaloneVars>>

LoopVars == <<alive>>
MlVars == <<actions, models, scalers>>

----------------------------------------------------------------------------
(* Bounds of the model *)

MaxClock == 3          \* minutes the clock may reach
MaxEvents == 2         \* inputs (commands, readings, predictions, alerts) in one run
MaxTicks == 9          \* 0.1 s polls of the button monitor
MaxFlashes == 1        \* _emergency_flash coroutines alive at once
MaxOverlap == 2        \* the same, where the alerts overlap
MaxLoops == 2          \* _monitor_ml_predictions coroutines alive at once
MaxThreads == 1        \* callback threads waiting to run
MaxLog == 3            \* user actions in DataLogger.actions
MaxFrames == 2         \* iterations of the animation loop of src/app.py

----------------------------------------------------------------------------
(* Program constants *)

\* settings.AUTO_OFF_TIMEOUT_MINUTES, read from the environment
\* (AUTO_OFF_TIMEOUT_MINUTES=2; the default is 30)
AUTO_OFF_TIMEOUT_MINUTES == 2

\* settings.ML_PREDICTION_CONFIDENCE_THRESHOLD (0.75), in hundredths
ML_PREDICTION_CONFIDENCE_THRESHOLD == 75

\* the literal 0.7 of _monitor_ml_predictions, in hundredths
COLOR_CONFIDENCE_THRESHOLD == 70

\* hardware_config.BUTTON_DEBOUNCE_TIME (0.3 s), in units of 0.1 s
BUTTON_DEBOUNCE_TIME == 3

\* hardware_config.ADC_MAX_VALUE
ADC_MAX_VALUE == 1023

\* settings.DEFAULT_BRIGHTNESS
DEFAULT_BRIGHTNESS == 80

\* settings ML_MIN_DATA_POINTS, read from the environment
\* (ML_MIN_DATA_POINTS=2; the default is 50)
ML_MIN_DATA_POINTS == 2

\* the literal 10 of train_color_model
MIN_COLOR_ACTIONS == 10

\* the learning period of the specification, in clock units; the code has
\* no such setting
LearningPeriod == 1

\* the keys of PatternAnalyzer.models and PatternAnalyzer.scalers
ModelNames == {"on_off", "color", "color_clusters"}
ScalerNames == {"on_off", "color"}

None == {}
Some(x) == {x}
The(s) == CHOOSE x \in s : TRUE
NoTime == -1

RGB(r, g, b) == [r |-> r, g |-> g, b |-> b]

\* hardware_config.COLOR_PRESETS, in dictionary order
COLOR_PRESETS ==
    << RGB(255, 255, 255), RGB(255, 230, 180), RGB(180, 220, 255),
       RGB(255, 0, 0),     RGB(0, 255, 0),     RGB(0, 0, 255),
       RGB(255, 255, 0),   RGB(128, 0, 128),   RGB(255, 165, 0),
       RGB(255, 192, 203), RGB(0, 255, 255) >>

\* hardware_config.get_color_by_temperature
get_color_by_temperature(temperature) ==
    IF temperature < 10 THEN RGB(100, 150, 255)
    ELSE IF temperature < 15 THEN RGB(150, 200, 255)
    ELSE IF temperature < 20 THEN RGB(200, 230, 255)
    ELSE IF temperature < 25 THEN RGB(255, 255, 255)
    ELSE IF temperature < 30 THEN RGB(255, 230, 200)
    ELSE IF temperature < 35 THEN RGB(255, 200, 150)
    ELSE RGB(255, 100, 100)

\* settings.get_default_lamp_state
get_default_lamp_state ==
    [is_on |-> FALSE, brightness |-> DEFAULT_BRIGHTNESS,
     color |-> RGB(255, 255, 255), mode |-> "manual",
     auto_mode_enabled |-> FALSE]

\* components_status["hardware"] and ["ml"] after _initialize_components
HardwareAvailable == TRUE
MlAvailable == TRUE

Buttons == {"main_switch", "color_button", "mode_button"}

\* the loops start() sets going beside the prediction loops, which mlLoops counts
Loops == {"potentiometer", "auto_off", "sensors", "buttons"}

----------------------------------------------------------------------------
(* The state a handler works on: the lamp state, the hardware mirror, the  *)
(* snapshot file, the inactivity timestamp, the side effects counted so    *)
(* far, the prediction loops it has started, whether it made a transition  *)
(* with trigger_type "manual", and whether the snapshot file can be        *)
(* written.                                                                *)

NoEffects == [hw |-> 0, save |-> 0, rec |-> 0]

World == [cs |-> current_state, hw |-> hw, snap |-> snapshot,
          lui |-> last_user_interaction, fx |-> NoEffects, spawn |-> 0,
          manual |-> FALSE, diskFails |-> diskFails]

\* the same handlers applied to the reference state
RefWorld == [World EXCEPT !.cs = ref]

\* the four fields of the lamp state the claims speak of
LampView(cs) == <<cs.is_on, cs.brightness, cs.color, cs.mode>>

Min(a, b) == IF a < b THEN a ELSE b
Max(a, b) == IF a > b THEN a ELSE b

\* a clamp that forgets the upper bound
ClampFromBelow(brightness) == Max(0, brightness)

\* max(0, min(100, brightness))
Clamp(brightness) == Max(0, Min(100, brightness))

\* a colour dictionary with its three channels
well_formed(color) == DOMAIN color = {"r", "g", "b"}

\* HardwareController._update_leds raises KeyError on a colour without a
\* channel; it reads the colour only while the lamp is on
hw_raises(is_on, color) == is_on /\ ~well_formed(color)

\* a hardware set_lamp_state that takes a colour only while the lamp is on
hw_set_lamp_state_color_when_on(h, is_on, brightness, color) ==
    [is_lamp_on |-> is_on,
     current_brightness |-> Clamp(brightness),
     current_color |-> IF is_on THEN color ELSE h.current_color]

\* HardwareController.set_lamp_state
hw_set_lamp_state(h, is_on, brightness, color) ==
    [is_lamp_on |-> is_on,
     current_brightness |-> Clamp(brightness),
     current_color |-> color]

\* ml_controller.log_lamp_state_change / log_color_change / log_brightness_change:
\* one interaction record appended
log_interaction(w) == [w EXCEPT !.fx.rec = @ + 1]

\* SmartLamp._save_lamp_state; an error of the write is logged and swallowed
save_lamp_state(w) ==
    IF w.diskFails THEN w
    ELSE [w EXCEPT !.snap = Some(w.cs), !.fx.save = @ + 1]

\* SmartLamp._reset_auto_off_timer
reset_auto_off_timer(w, t) == [w EXCEPT !.lui = t]

\* an except clause that puts the state of before the call back
on_hardware_error_rollback(before, failed) == before

\* the except clause of set_lamp_state: the error is logged, before is the
\* state the call started in and failed the state the exception left
on_hardware_error(before, failed) == failed

\* a set_lamp_state that stores the requested brightness as it is given
set_lamp_state_unclamped(w, is_on, brightness, color, mode, trigger_type, t) ==
    LET cs1 == [w.cs EXCEPT
                  !.is_on = is_on,
                  !.brightness = IF brightness = None THEN @ ELSE The(brightness),
                  !.color = IF color = None THEN @ ELSE The(color),
                  !.mode = IF mode = None THEN @ ELSE The(mode)]
        w1 == [w EXCEPT !.cs = cs1]
        w2 == IF HardwareAvailable
              THEN [w1 EXCEPT !.hw = hw_set_lamp_state(@, is_on, cs1.brightness, cs1.color),
                              !.fx.hw = @ + 1]
              ELSE w1
        w3 == IF trigger_type = "manual"
              THEN log_interaction([w2 EXCEPT !.lui = t, !.manual = TRUE])
              ELSE w2
        w4 == save_lamp_state(w3)
    IN  IF is_on THEN reset_auto_off_timer(w4, t) ELSE w4

\* SmartLamp.set_lamp_state; brightness, color and mode are optional (None).
\* The body is one try block: an exception of the hardware call ends it.
set_lamp_state(w, is_on, brightness, color, mode, trigger_type, t) ==
    LET cs1 == [w.cs EXCEPT
                  !.is_on = is_on,
                  !.brightness = IF brightness = None THEN @ ELSE Clamp(The(brightness)),
                  !.color = IF color = None THEN @ ELSE The(color),
                  !.mode = IF mode = None THEN @ ELSE The(mode)]
        w1 == [w EXCEPT !.cs = cs1]
        w2 == IF HardwareAvailable
              THEN [w1 EXCEPT !.hw = hw_set_lamp_state(@, is_on, cs1.brightness, cs1.color),
                              !.fx.hw = @ + 1]
              ELSE w1
        w3 == IF trigger_type = "manual"
              THEN log_interaction([w2 EXCEPT !.lui = t, !.manual = TRUE])
              ELSE w2
        w4 == save_lamp_state(w3)
    IN  IF HardwareAvailable /\ hw_raises(is_on, cs1.color)
        THEN on_hardware_error(w, w2)   \* the rest of the try block is skipped
        ELSE IF is_on THEN reset_auto_off_timer(w4, t) ELSE w4

\* SmartLamp.toggle_lamp
toggle_lamp(w, trigger_type, t) ==
    set_lamp_state(w, ~w.cs.is_on, None, None, None, trigger_type, t)

\* a set_color that logs the colour change whatever the trigger
set_color_logging(w, color, trigger_type, t) ==
    log_interaction(set_lamp_state(w, w.cs.is_on, None, Some(color), None, trigger_type, t))

\* SmartLamp.set_color
set_color(w, color, trigger_type, t) ==
    LET w1 == set_lamp_state(w, w.cs.is_on, None, Some(color), None, trigger_type, t)
    IN  IF trigger_type = "manual" THEN log_interaction(w1) ELSE w1

\* SmartLamp.set_brightness
set_brightness(w, brightness, trigger_type, t) ==
    LET w1 == set_lamp_state(w, w.cs.is_on, Some(brightness), None, None, trigger_type, t)
    IN  IF trigger_type = "manual" THEN log_interaction(w1) ELSE w1

valid_modes == {"manual", "auto", "environmental"}

\* a set_mode that takes any mode name
set_mode_unchecked(w, mode) ==
    LET old_mode == w.cs.mode
        w1 == [w EXCEPT !.cs.mode = mode,
                        !.cs.auto_mode_enabled = (mode # "manual")]
        w2 == IF mode = "auto" /\ old_mode # "auto"
              THEN [w1 EXCEPT !.spawn = @ + 1]
              ELSE w1
    IN  save_lamp_state(w2)

\* a set_mode that raises the flag for auto mode only
set_mode_flag_for_auto(w, mode) ==
    IF mode \notin valid_modes THEN w
    ELSE LET old_mode == w.cs.mode
             w1 == [w EXCEPT !.cs.mode = mode,
                             !.cs.auto_mode_enabled = (mode = "auto")]
             w2 == IF mode = "auto" /\ old_mode # "auto"
                   THEN [w1 EXCEPT !.spawn = @ + 1]
                   ELSE w1
         IN  save_lamp_state(w2)

\* SmartLamp.set_mode
set_mode(w, mode) ==
    IF mode \notin valid_modes THEN w
    ELSE LET old_mode == w.cs.mode
             w1 == [w EXCEPT !.cs.mode = mode,
                             !.cs.auto_mode_enabled = (mode # "manual")]
             w2 == IF mode = "auto" /\ old_mode # "auto"
                   THEN [w1 EXCEPT !.spawn = @ + 1]
                   ELSE w1
         IN  save_lamp_state(w2)

\* SmartLamp._load_lamp_state: the saved state, or the defaults without a file
load_lamp_state(file) ==
    IF file = None THEN get_default_lamp_state ELSE The(file)

\* SmartLamp._restore_lamp_state
restore_lamp_state(w, t) ==
    IF w.cs.is_on
    THEN set_lamp_state(w, TRUE, Some(w.cs.brightness), Some(w.cs.color), None,
                        "system_restore", t)
    ELSE w

----------------------------------------------------------------------------
(* Producers *)

\* HardwareController._read_adc: the 10-bit value in the last two bytes of
\* the MCP3008 response, ((response[1] & 0x03) << 8) + response[2]
read_adc(response1, response2) == ((response1 % 4) * 256) + response2

\* a conversion that takes the ADC range for 1024 steps
read_potentiometer_by_1024(adc_value) ==
    Clamp((adc_value * 100) \div (ADC_MAX_VALUE + 1))

\* HardwareController.read_potentiometer on a raw 10-bit ADC value:
\* max(0, min(100, int((adc_value / ADC_MAX_VALUE) * 100))).  The float
\* quotient truncates to the integer quotient for every value in 0..1023:
\* gcd(100, 1023) = 1, so only 0 and 1023 give a whole number.
read_potentiometer(adc_value) ==
    Clamp((adc_value * 100) \div ADC_MAX_VALUE)

\* HardwareController.read_potentiometer when _read_adc raises (or no SPI
\* device was opened): the brightness the hardware was last driven to
read_potentiometer_error(h) == h.current_brightness

Abs(x) == IF x < 0 THEN -x ELSE x

\* the noise threshold of _monitor_potentiometer, in brightness points
POT_NOISE_THRESHOLD == 5

\* a condition that takes a reading at the threshold as a change
pot_significant_at_threshold(last_brightness, current_brightness, cs) ==
    \/ last_brightness = None
    \/ /\ Abs(current_brightness - The(last_brightness)) >= POT_NOISE_THRESHOLD
       /\ cs.is_on

\* the condition of _monitor_potentiometer: `or` binds weaker than `and`
pot_significant(last_brightness, current_brightness, cs) ==
    \/ last_brightness = None
    \/ /\ Abs(current_brightness - The(last_brightness)) > POT_NOISE_THRESHOLD
       /\ cs.is_on

\* an auto-off test that forgets the timeout
auto_off_due_at_once(w, t) ==
    /\ w.cs.is_on
    /\ w.lui # NoTime
    /\ AUTO_OFF_TIMEOUT_MINUTES > 0

\* the condition of _monitor_auto_off under which it switches the lamp off
auto_off_due(w, t) ==
    /\ w.cs.is_on
    /\ w.lui # NoTime
    /\ AUTO_OFF_TIMEOUT_MINUTES > 0
    /\ t - w.lui > AUTO_OFF_TIMEOUT_MINUTES

\* the body of _monitor_auto_off's loop
monitor_auto_off(w, t) ==
    IF auto_off_due(w, t)
    THEN set_lamp_state(w, FALSE, None, None, None, "auto_timeout", t)
    ELSE w

\* a gate that compares with one half instead of the configured threshold
passes_gate_half(confidence) == confidence >= 50

\* the confidence gate of _monitor_ml_predictions
passes_gate(confidence) == confidence >= ML_PREDICTION_CONFIDENCE_THRESHOLD

\* a prediction loop that applies a prediction without comparing it with is_on
monitor_ml_predictions_always(w, prediction, color_prediction, t) ==
    IF MlAvailable /\ passes_gate(prediction.confidence)
    THEN LET w1 == set_lamp_state(w, prediction.should_be_on, None, None, None,
                                  "ml_prediction", t)
         IN  IF color_prediction.confidence > COLOR_CONFIDENCE_THRESHOLD
             THEN set_color(w1, color_prediction.color, "ml_prediction", t)
             ELSE w1
    ELSE w

\* the body of _monitor_ml_predictions's loop on a prediction and a colour prediction
monitor_ml_predictions(w, prediction, color_prediction, t) ==
    IF MlAvailable /\ passes_gate(prediction.confidence)
                   /\ prediction.should_be_on # w.cs.is_on
    THEN LET w1 == set_lamp_state(w, prediction.should_be_on, None, None, None,
                                  "ml_prediction", t)
         IN  IF color_prediction.confidence > COLOR_CONFIDENCE_THRESHOLD
             THEN set_color(w1, color_prediction.color, "ml_prediction", t)
             ELSE w1
    ELSE w

EmergencyColor == RGB(255, 0, 0)
Black == RGB(0, 0, 0)
WarningColor == RGB(255, 165, 0)

\* _emergency_flash up to its first sleep: the state, and the coroutine with
\* its locals; pre (the lamp state the alert arrived in) and alone (nothing
\* else has changed the lamp state since) are kept for the claims
emergency_flash_begin(w, color, t) ==
    LET original_state == w.cs.is_on
        w1 == IF ~w.cs.is_on
              THEN set_lamp_state(w, TRUE, None, None, None, "emergency_alert", t)
              ELSE w
        original_color == w1.cs.color
    IN  [w |-> set_color(w1, color, "emergency_alert", t),
         f |-> [original_state |-> original_state,
                original_color |-> original_color,
                color |-> color, n |-> 1,
                pre |-> LampView(w.cs), alone |-> TRUE]]

\* _emergency_flash from one sleep to the next; n counts the set_color calls
\* of the loop made so far (3 cycles of colour, black)
emergency_flash_resume(w, f, t) ==
    IF f.n < 6
    THEN set_color(w, IF f.n % 2 = 1 THEN Black ELSE f.color, "emergency_alert", t)
    ELSE IF f.original_state
         THEN set_color(w, f.original_color, "emergency_alert", t)
         ELSE set_lamp_state(w, FALSE, None, None, None, "emergency_alert", t)

\* _emergency_flash run from start to end with nothing in between
RECURSIVE emergency_flash_rest(_, _, _)
emergency_flash_rest(w, f, t) ==
    IF f.n < 6
    THEN emergency_flash_rest(emergency_flash_resume(w, f, t), [f EXCEPT !.n = @ + 1], t)
    ELSE emergency_flash_resume(w, f, t)

emergency_flash(w, color, t) ==
    LET b == emergency_flash_begin(w, color, t)
    IN  emergency_flash_rest(b.w, b.f, t)

\* a test that lets every alert through
alert_handled_always(cs, alert) == TRUE

\* _on_sensor_alert: does the alert reach _handle_environmental_alert
alert_handled(cs, alert) ==
    cs.mode = "environmental" \/ alert.severity = "high"

\* _handle_environmental_alert for the alerts that do not flash
handle_environmental_alert(w, alert, t) ==
    IF alert.type = "air_quality"
    THEN set_color(w, WarningColor, "environmental_alert", t)
    ELSE IF alert.type = "temperature"
    THEN set_color(w, get_color_by_temperature(alert.temperature), "environmental_alert", t)
    ELSE w

\* _on_sensor_alert run to its end with nothing in between
on_sensor_alert(w, alert, t) ==
    IF ~alert_handled(w.cs, alert) THEN w
    ELSE IF alert.type = "earthquake"
    THEN emergency_flash(w, EmergencyColor, t)
    ELSE handle_environmental_alert(w, alert, t)

\* the index search of _on_color_button_pressed (0-based in the source)
current_index(color) ==
    IF \E i \in 1..Len(COLOR_PRESETS) : COLOR_PRESETS[i] = color
    THEN CHOOSE i \in 1..Len(COLOR_PRESETS) :
            /\ COLOR_PRESETS[i] = color
            /\ \A j \in 1..(i - 1) : COLOR_PRESETS[j] # color
    ELSE 1

\* the next preset of _on_color_button_pressed
next_color(color) == COLOR_PRESETS[(current_index(color) % Len(COLOR_PRESETS)) + 1]

\* the next mode of _on_mode_button_pressed
next_mode(mode) ==
    IF mode = "manual" THEN "auto"
    ELSE IF mode = "auto" THEN "environmental"
    ELSE "manual"

\* a button event whose colour cycle does not look at the mode
button_event_ungated(w, button, t) ==
    IF button = "main_switch" THEN toggle_lamp(w, "manual", t)
    ELSE IF button = "color_button"
    THEN set_color(w, next_color(w.cs.color), "manual", t)
    ELSE set_mode(w, next_mode(w.cs.mode))

\* the event a button callback submits, applied whole
button_event(w, button, t) ==
    IF button = "main_switch" THEN toggle_lamp(w, "manual", t)
    ELSE IF button = "color_button"
    THEN IF w.cs.mode # "manual" THEN w
         ELSE set_color(w, next_color(w.cs.color), "manual", t)
    ELSE set_mode(w, next_mode(w.cs.mode))

----------------------------------------------------------------------------
(* Inputs *)

ApiBrightness == {-5, 40, 150}
ApiColors == {RGB(0, 0, 255), RGB(300, -1, 0)}
\* colour arguments that lack a channel
MalformedColors == {[r |-> 255]}
ApiModes == valid_modes \cup {"party"}
AdcValues == {0, 512, 563}
\* the second and third byte of an MCP3008 response
AdcHighBytes == 0..7
AdcLowBytes == 0..255
Predictions == [confidence : {60, 75, 90}, should_be_on : BOOLEAN]
ColorPredictions == [confidence : {0, 80}, color : {RGB(255, 255, 255), RGB(128, 0, 128)}]

\* the alerts SensorController.check_alerts produces
Alerts ==
    { [type |-> "earthquake", severity |-> "high", temperature |-> 20],
      [type |-> "air_quality", severity |-> "medium", temperature |-> 20],
      [type |-> "temperature", severity |-> "low", temperature |-> 5],
      [type |-> "temperature", severity |-> "low", temperature |-> 40] }

\* the record of a step: its kind op and, as far as they apply, a number b
\* (brightness, temperature or time), a colour c, a confidence conf, a
\* flag on, the pins read LOW and the lamp state pre an alert arrived in
Ev(op, b, c, conf, on) ==
    [op |-> op, b |-> b, c |-> c, conf |-> conf, on |-> on, pins |-> {},
     pre |-> << >>]
EvOf(op) == Ev(op, 0, Black, 0, FALSE)

----------------------------------------------------------------------------
(* Initial state: SmartLamp.__init__ and HardwareController.__init__ on a  *)
(* first start, with no lamp_state.json yet.                               *)

hw_init == [is_lamp_on |-> FALSE, current_brightness |-> 0,
            current_color |-> RGB(255, 255, 255)]

\* src/app.py: the strip has LED_COUNT pixels, 2 here
LED_COUNT == 2
Pixels == 0..(LED_COUNT - 1)

\* NeoPixelController.__init__: no effect, no animation thread, a dark strip.
\* pixels is the buffer of the strip and shown what strip.show() last sent;
\* thread is the statement the animation thread is at, with its locals i and
\* j; caller is the statement the thread calling turn_off or start_effect is
\* at.  turned_off: the last call to return was turn_off; midIteration: the
\* animation thread was inside its loop body when that turn_off filled the strip.
neo_init ==
    [current_effect |-> "off", is_running |-> FALSE,
     pixels |-> [p \in Pixels |-> Black], shown |-> [p \in Pixels |-> Black],
     thread |-> "none", i |-> 0, j |-> 0, frames |-> 0,
     caller |-> "idle", turned_off |-> FALSE, midIteration |-> FALSE]

\* src/manual_control/lamp_controller.py: the colour table (its first three
\* entries), the three buttons and the three threads
colors == << <<1, 0, 0>>, <<0, 1, 0>>, <<0, 0, 1>> >>
ManualButtons == {"BUTTON_ON_OFF", "BUTTON_COLOR", "BUTTON_MODE"}
ManualThreads == {"button_loop", "brightness_loop", "auto_mode_loop"}
Levels == {"LOW", "HIGH"}
Dark == <<0, 0, 0>>

\* the module at import, before the threads have run a statement: state as
\* written at lines 14-19 (load_state finds no lamp_state.json), the three
\* PWM channels started at duty cycle 0.  pc is the statement a thread is
\* at, ret where it goes on after apply_color, local what apply_color has
\* read, prev the levels button_loop remembers.
manual_init ==
    [state |-> [power |-> FALSE, color_index |-> 0, auto_mode |-> FALSE, brightness |-> 100],
     duty |-> Dark,
     pc |-> [t \in ManualThreads |->
                IF t = "button_loop" THEN "prev"
                ELSE IF t = "brightness_loop" THEN "read_adc" ELSE "check"],
     ret |-> [t \in ManualThreads |-> "none"],
     local |-> [t \in ManualThreads |-> << >>],
     prev |-> [b \in ManualButtons |-> "HIGH"]]

Init ==
    /\ neo = neo_init
    /\ manual = manual_init
    /\ phase = "constructed"
    /\ is_running = FALSE
    /\ snapshot = None
    /\ current_state = load_lamp_state(None)
    /\ last_user_interaction = NoTime
    /\ hw = hw_init
    /\ clock = 0
    /\ autoOffAwake = FALSE
    /\ potLast = None
    /\ mlLoops = 0
    /\ flashes = << >>
    /\ ticks = BUTTON_DEBOUNCE_TIME + 1
    /\ last_button_press = [b \in Buttons |-> 0]
    /\ pressCallbacks = [b \in Buttons |-> 0]
    /\ cbThreads = [b \in Buttons |-> 0]
    /\ ev = EvOf("init")
    /\ fx = NoEffects
    /\ ref = load_lamp_state(None)
    /\ lastManual = NoTime
    /\ onSinceManual = FALSE
    /\ budget = MaxEvents
    /\ diskFails = FALSE
    /\ heldAtShutdown = None
    /\ alive = {}
    /\ actions = << >>
    /\ models = [name \in ModelNames |-> None]
    /\ scalers = [name \in ScalerNames |-> None]

\* a handler with outcome w disturbs the flashes in progress if it changes the lamp state
Disturbed(fs, w) ==
    [i \in DOMAIN fs |-> [fs[i] EXCEPT !.alone = @ /\ w.cs = current_state]]

\* the outcome w of a handler becomes the new state
CommitLamp(w) ==
    /\ mlLoops + w.spawn <= MaxLoops
    /\ current_state' = w.cs
    /\ hw' = w.hw
    /\ snapshot' = w.snap
    /\ last_user_interaction' = w.lui
    /\ fx' = w.fx
    /\ mlLoops' = mlLoops + w.spawn
    /\ lastManual' = IF w.manual THEN clock ELSE lastManual
    /\ onSinceManual' = IF w.manual THEN w.cs.is_on ELSE onSinceManual /\ w.cs.is_on

Commit(w) ==
    /\ CommitLamp(w)
    /\ flashes' = Disturbed(flashes, w)

ButtonVars == <<ticks, last_button_press, pressCallbacks, cbThreads>>

\* a step that takes an input from the environment, and one that does not
Input == budget > 0 /\ budget' = budget - 1
Internal == UNCHANGED budget

\* the lamp, which the prediction engine and the ADC conversion leave alone
EngineVars == <<phase, is_running, current_state, last_user_interaction, hw, snapshot,
                autoOffAwake, potLast, mlLoops, flashes, ref, lastManual,
                onSinceManual, ButtonVars, diskFails, heldAtShutdown, LoopVars>>

----------------------------------------------------------------------------
(* Life cycle *)

\* SmartLamp.start up to the first sleep of _main_loop
Start ==
    /\ Internal
    /\ phase = "constructed"
    /\ LET w == restore_lamp_state(World, clock)
       IN  /\ current_state' = w.cs
           /\ hw' = w.hw
           /\ snapshot' = w.snap
           /\ last_user_interaction' = w.lui
           /\ fx' = w.fx
           /\ ref' = w.cs
    /\ mlLoops' = IF current_state.auto_mode_enabled THEN 1 ELSE 0
    /\ phase' = "running"
    /\ is_running' = TRUE
    /\ autoOffAwake' = TRUE
    /\ potLast' = None
    /\ ev' = EvOf("start")
    /\ heldAtShutdown' = None
    /\ alive' = Loops
    /\ UNCHANGED <<StandaloneVars, clock, flashes, lastManual, onSinceManual, ButtonVars, diskFails, MlVars>>

\* the producers left alive by SmartLamp.shutdown: it returns at once unless
\* is_running; otherwise the monitoring tasks are cancelled and awaited,
\* stop_monitoring cancels the sensor loop and HardwareController.cleanup
\* stops the button monitor
shutdown_stops(running, producers) == IF ~running THEN producers ELSE {}

\* the points of start() before is_running is set at which a call may raise:
\* start_button_monitoring (the thread cannot be started), after the sensor
\* loop was started, and _start_monitoring_tasks, after the button monitor
\* was started too
StartFailures == {"callbacks", "tasks"}

\* SmartLamp.start when a call raises before is_running is set: the except
\* clause awaits shutdown() and raises again.  Monitoring tasks created so
\* far find is_running false when first scheduled and end by themselves.
StartFails(stage) ==
    /\ Internal
    /\ phase = "constructed"
    /\ phase' = "down"
    /\ alive' = shutdown_stops(is_running,
                               IF stage = "callbacks" THEN {"sensors"}
                               ELSE {"sensors", "buttons"})
    /\ ev' = [EvOf("start_failed") EXCEPT !.pre = <<stage>>]
    /\ fx' = NoEffects
    /\ UNCHANGED <<StandaloneVars, is_running, current_state, last_user_interaction, hw, snapshot,
                   clock, autoOffAwake, potLast, mlLoops, flashes, ref, lastManual,
                   onSinceManual, ButtonVars, diskFails, heldAtShutdown, MlVars>>

\* SmartLamp.shutdown; HardwareController.cleanup stops the button monitor
Shutdown ==
    /\ Internal
    /\ phase = "running"
    /\ is_running
    /\ is_running' = FALSE
    /\ phase' = "down"
    /\ mlLoops' = 0
    /\ autoOffAwake' = FALSE
    /\ LET w == save_lamp_state(World)
       IN  /\ snapshot' = w.snap
           /\ fx' = w.fx
    /\ ev' = EvOf("shutdown")
    /\ heldAtShutdown' = Some(LampView(current_state))
    /\ alive' = shutdown_stops(is_running, alive)
    /\ UNCHANGED <<StandaloneVars, current_state, last_user_interaction, hw, clock, potLast, flashes,
                   ref, lastManual, onSinceManual, ButtonVars, diskFails, MlVars>>

\* the process ends and a new one constructs its controllers
Restart ==
    /\ Internal
    /\ phase = "down"
    /\ phase' = "constructed"
    /\ current_state' = load_lamp_state(snapshot)
    /\ ref' = load_lamp_state(snapshot)
    /\ last_user_interaction' = NoTime
    /\ hw' = hw_init
    /\ flashes' = << >>
    /\ potLast' = None
    /\ last_button_press' = [b \in Buttons |-> 0]
    /\ pressCallbacks' = [b \in Buttons |-> 0]
    /\ cbThreads' = [b \in Buttons |-> 0]
    /\ fx' = NoEffects
    /\ ev' = EvOf("restart")
    /\ lastManual' = NoTime
    /\ onSinceManual' = FALSE
    /\ alive' = {}
    /\ UNCHANGED <<StandaloneVars, is_running, snapshot, clock, autoOffAwake, mlLoops, ticks, diskFails, heldAtShutdown, MlVars>>

\* a minute passes; _monitor_auto_off wakes once a minute while it runs
Tick ==
    /\ Internal
    /\ clock < MaxClock
    /\ ~(is_running /\ autoOffAwake)
    /\ clock' = clock + 1
    /\ autoOffAwake' = is_running
    /\ ev' = EvOf("tick")
    /\ fx' = NoEffects
    /\ UNCHANGED <<StandaloneVars, phase, is_running, current_state, last_user_interaction, hw,
                   snapshot, potLast, mlLoops, flashes, ref, lastManual,
                   onSinceManual, ButtonVars, diskFails, heldAtShutdown, LoopVars, MlVars>>

----------------------------------------------------------------------------
(* The monitoring coroutines of the event loop *)

\* one iteration of _monitor_auto_off
AutoOffStep ==
    /\ Internal
    /\ is_running
    /\ "auto_off" \in alive
    /\ autoOffAwake
    /\ autoOffAwake' = FALSE
    /\ Commit(monitor_auto_off(World, clock))
    /\ ref' = IF auto_off_due(World, clock)
              THEN set_lamp_state(RefWorld, FALSE, None, None, None, "auto_timeout", clock).cs
              ELSE ref
    /\ ev' = EvOf(IF auto_off_due(World, clock) THEN "auto_timeout" ELSE "auto_off_idle")
    /\ UNCHANGED <<StandaloneVars, phase, is_running, clock, potLast, ButtonVars, diskFails, heldAtShutdown, LoopVars, MlVars>>

\* one iteration of _monitor_potentiometer in which read_potentiometer
\* returns current_brightness; read_error: the read took its except branch
PotLoop(current_brightness, read_error) ==
    /\ is_running
    /\ "potentiometer" \in alive
    /\ HardwareAvailable
    /\ LET emit == pot_significant(potLast, current_brightness, current_state)
       IN  /\ Commit(IF emit
                     THEN set_brightness(World, current_brightness, "potentiometer", clock)
                     ELSE World)
           /\ potLast' = IF emit THEN Some(current_brightness) ELSE potLast
           /\ ref' = IF emit
                     THEN set_brightness(RefWorld, current_brightness, "potentiometer", clock).cs
                     ELSE ref
           /\ ev' = [Ev(IF emit THEN "potentiometer" ELSE "potentiometer_idle",
                        current_brightness, Black, 0, FALSE)
                       EXCEPT !.pre = IF read_error THEN <<"read_error">> ELSE << >>]
    /\ UNCHANGED <<StandaloneVars, phase, is_running, clock, autoOffAwake, ButtonVars, diskFails, heldAtShutdown, LoopVars, MlVars>>

\* one iteration of _monitor_potentiometer on the ADC value it reads
PotStep(adc_value) ==
    /\ Input
    /\ PotLoop(read_potentiometer(adc_value), FALSE)

\* the same iteration of the loop that polls twice a second, not counted
\* among the inputs of the environment
PotPoll(adc_value) ==
    /\ Internal
    /\ PotLoop(read_potentiometer(adc_value), FALSE)

\* read_potentiometer by itself, on the SPI response bytes of the ADC;
\* ev.conf is the raw value and ev.b the brightness reported
ReadPotentiometer(response1, response2) ==
    /\ Internal
    /\ ev' = Ev("read_potentiometer", read_potentiometer(read_adc(response1, response2)),
                Black, read_adc(response1, response2), FALSE)
    /\ fx' = NoEffects
    /\ UNCHANGED <<StandaloneVars, EngineVars, clock, MlVars>>

\* an iteration in which _read_adc raises
PotReadError ==
    /\ Internal
    /\ PotLoop(read_potentiometer_error(hw), TRUE)

\* one iteration of a _monitor_ml_predictions loop whose while condition holds
MlStep(prediction, color_prediction) ==
    /\ Input
    /\ mlLoops > 0
    /\ is_running /\ current_state.auto_mode_enabled
    /\ Commit(monitor_ml_predictions(World, prediction, color_prediction, clock))
    /\ ref' = monitor_ml_predictions(RefWorld, prediction, color_prediction, clock).cs
    /\ ev' = Ev("prediction", 0, color_prediction.color, prediction.confidence,
                prediction.should_be_on)
    /\ UNCHANGED <<StandaloneVars, phase, is_running, clock, autoOffAwake, potLast, ButtonVars, diskFails, heldAtShutdown, LoopVars, MlVars>>

\* a _monitor_ml_predictions loop finds its while condition false and ends
MlExit ==
    /\ Internal
    /\ mlLoops > 0
    /\ ~(is_running /\ current_state.auto_mode_enabled)
    /\ mlLoops' = mlLoops - 1
    /\ ev' = EvOf("prediction_loop_end")
    /\ fx' = NoEffects
    /\ UNCHANGED <<StandaloneVars, phase, is_running, current_state, last_user_interaction, hw,
                   snapshot, clock, autoOffAwake, potLast, flashes, ref, lastManual,
                   onSinceManual, ButtonVars, diskFails, heldAtShutdown, LoopVars, MlVars>>

\* _on_sensor_alert on an alert of _monitor_sensors, up to its first sleep,
\* with at most limit _emergency_flash coroutines alive
SensorAlertAmong(alert, limit) ==
    /\ Input
    /\ phase = "running"
    /\ "sensors" \in alive
    /\ LET flash == alert_handled(current_state, alert) /\ alert.type = "earthquake"
           b == emergency_flash_begin(World, EmergencyColor, clock)
           w == IF ~alert_handled(current_state, alert) THEN World
                ELSE IF flash THEN b.w
                ELSE handle_environmental_alert(World, alert, clock)
       IN  /\ flash => Len(flashes) < limit
           /\ CommitLamp(w)
           /\ flashes' = IF flash THEN Append(Disturbed(flashes, w), b.f)
                         ELSE Disturbed(flashes, w)
    /\ ref' = on_sensor_alert(RefWorld, alert, clock).cs
    /\ ev' = Ev(alert.type, alert.temperature, Black, 0,
                alert_handled(current_state, alert))
    /\ UNCHANGED <<StandaloneVars, phase, is_running, clock, autoOffAwake, potLast, ButtonVars, diskFails, heldAtShutdown, LoopVars, MlVars>>

SensorAlert(alert) == SensorAlertAmong(alert, MaxFlashes)

\* the same, each alert of _monitor_sensors handled in a task of its own
\* while earlier flashes sleep
SensorAlertOverlapping(alert) == SensorAlertAmong(alert, MaxOverlap)

\* the i-th _emergency_flash coroutine runs from one sleep to the next
FlashStep(i) ==
    /\ Internal
    /\ phase \in {"running", "down"}
    /\ i \in 1..Len(flashes)
    /\ LET w == emergency_flash_resume(World, flashes[i], clock)
           others == Disturbed(flashes, w)
       IN  /\ CommitLamp(w)
           /\ flashes' = IF flashes[i].n < 6
                         THEN [others EXCEPT ![i] = [flashes[i] EXCEPT !.n = @ + 1]]
                         ELSE SubSeq(others, 1, i - 1) \o SubSeq(others, i + 1, Len(others))
    /\ ev' = IF flashes[i].n < 6 THEN EvOf("flash_step")
             ELSE [Ev("flash_end", 0, flashes[i].original_color, 0, flashes[i].alone)
                     EXCEPT !.pre = flashes[i].pre]
    /\ UNCHANGED <<StandaloneVars, phase, is_running, clock, autoOffAwake, potLast, ref, ButtonVars, diskFails, heldAtShutdown, LoopVars, MlVars>>

----------------------------------------------------------------------------
(* Commands of the exposed surface, awaited on the event loop *)

ApiToggle ==
    /\ Input
    /\ is_running
    /\ Commit(toggle_lamp(World, "manual", clock))
    /\ ref' = toggle_lamp(RefWorld, "manual", clock).cs
    /\ ev' = EvOf("toggle_lamp")
    /\ UNCHANGED <<StandaloneVars, phase, is_running, clock, autoOffAwake, potLast, ButtonVars, diskFails, heldAtShutdown, LoopVars, MlVars>>

ApiSetColor(color) ==
    /\ Input
    /\ is_running
    /\ Commit(set_color(World, color, "manual", clock))
    /\ ref' = set_color(RefWorld, color, "manual", clock).cs
    /\ ev' = Ev("set_color", 0, color, 0, FALSE)
    /\ UNCHANGED <<StandaloneVars, phase, is_running, clock, autoOffAwake, potLast, ButtonVars, diskFails, heldAtShutdown, LoopVars, MlVars>>

ApiSetBrightness(brightness) ==
    /\ Input
    /\ is_running
    /\ Commit(set_brightness(World, brightness, "manual", clock))
    /\ ref' = set_brightness(RefWorld, brightness, "manual", clock).cs
    /\ ev' = Ev("set_brightness", brightness, Black, 0, FALSE)
    /\ UNCHANGED <<StandaloneVars, phase, is_running, clock, autoOffAwake, potLast, ButtonVars, diskFails, heldAtShutdown, LoopVars, MlVars>>

ApiSetMode(mode) ==
    /\ Input
    /\ is_running
    /\ Commit(set_mode(World, mode))
    /\ ref' = set_mode(RefWorld, mode).cs
    /\ ev' = Ev("set_mode", 0, Black, 0, mode \in valid_modes)
    /\ UNCHANGED <<StandaloneVars, phase, is_running, clock, autoOffAwake, potLast, ButtonVars, diskFails, heldAtShutdown, LoopVars, MlVars>>

\* the snapshot file becomes unwritable, or writable again
SetDiskFault(fails) ==
    /\ Internal
    /\ phase = "running"
    /\ diskFails # fails
    /\ diskFails' = fails
    /\ ev' = EvOf(IF fails THEN "disk_fault" ELSE "disk_repaired")
    /\ fx' = NoEffects
    /\ UNCHANGED <<StandaloneVars, phase, is_running, current_state, last_user_interaction, hw,
                   snapshot, clock, autoOffAwake, potLast, mlLoops, flashes, ref,
                   lastManual, onSinceManual, ButtonVars, heldAtShutdown, LoopVars, MlVars>>

----------------------------------------------------------------------------
(* Exceptions inside the loops *)

\* a loop whose try block encloses the while loop: the exception ends it
loop_after_error_ends(running, loop) == running \ {loop}

\* `except Exception` inside the while loop of each monitor: the error is
\* logged, the loop sleeps (the button monitor does not) and goes round again
loop_after_error(running, loop) == running

\* an iteration of a monitoring loop raises before it has changed anything
LoopError(loop) ==
    /\ Internal
    /\ is_running
    /\ loop \in alive
    /\ alive' = loop_after_error(alive, loop)
    /\ ev' = EvOf(loop \o "_error")
    /\ fx' = NoEffects
    /\ UNCHANGED <<StandaloneVars, phase, is_running, current_state, last_user_interaction, hw,
                   snapshot, clock, autoOffAwake, potLast, mlLoops, flashes, ref,
                   lastManual, onSinceManual, ButtonVars, diskFails, heldAtShutdown, MlVars>>

\* an iteration of a _monitor_ml_predictions loop raises (predict_lamp_state
\* raises, or returns something without .get)
MlError ==
    /\ Internal
    /\ mlLoops > 0
    /\ is_running /\ current_state.auto_mode_enabled
    /\ mlLoops' = IF "ml" \in loop_after_error({"ml"}, "ml") THEN mlLoops ELSE mlLoops - 1
    /\ ev' = EvOf("ml_error")
    /\ fx' = NoEffects
    /\ UNCHANGED <<StandaloneVars, phase, is_running, current_state, last_user_interaction, hw,
                   snapshot, clock, autoOffAwake, potLast, flashes, ref, alive,
                   lastManual, onSinceManual, ButtonVars, diskFails, heldAtShutdown, MlVars>>

\* the callback of a sensor alert raises inside _run_callback, which logs it
SensorCallbackError ==
    /\ Internal
    /\ phase = "running"
    /\ "sensors" \in alive
    /\ alive' = alive
    /\ ev' = EvOf("sensor_callback_error")
    /\ fx' = NoEffects
    /\ UNCHANGED <<StandaloneVars, phase, is_running, current_state, last_user_interaction, hw,
                   snapshot, clock, autoOffAwake, potLast, mlLoops, flashes, ref,
                   lastManual, onSinceManual, ButtonVars, diskFails, heldAtShutdown, MlVars>>

----------------------------------------------------------------------------
(* The prediction engine of src/src/ml.py: DataLogger, PatternAnalyzer and *)
(* MLController.retrain_models.  A fitted model or scaler is named by the  *)
(* number of actions it was fitted on (0: loaded from its joblib file).    *)

Engine == [actions |-> actions, models |-> models, scalers |-> scalers]

\* the UserAction log_action builds at time now
UserAction(action_type, brightness, color, previous_state, now) ==
    [timestamp |-> now, action_type |-> action_type, brightness |-> brightness,
     color_r |-> color.r, color_g |-> color.g, color_b |-> color.b,
     previous_state |-> previous_state]

\* a log_action that keeps only the newest action
log_action_overwrite(log, action_type, brightness, color, previous_state, now) ==
    << UserAction(action_type, brightness, color, previous_state, now) >>

\* DataLogger.log_action: the action is appended (and the file rewritten)
log_action(log, action_type, brightness, color, previous_state, now) ==
    Append(log, UserAction(action_type, brightness, color, previous_state, now))

\* PatternAnalyzer.has_sufficient_data
has_sufficient_data(log) == Len(log) >= ML_MIN_DATA_POINTS

\* the on/off label of prepare_features
on_off_label(action) ==
    IF action.action_type \in {"on", "color_change", "brightness_change"} THEN 1 ELSE 0

\* PatternAnalyzer.train_on_off_model; fit_raises: the split, a fit or the
\* evaluation raises, which the except clause turns into False
train_on_off_model(e, fit_raises) ==
    IF ~has_sufficient_data(e.actions) THEN [e |-> e, ok |-> FALSE]
    ELSE IF Cardinality({on_off_label(e.actions[i]) : i \in DOMAIN e.actions}) < 2
    THEN [e |-> e, ok |-> FALSE]
    ELSE IF fit_raises THEN [e |-> e, ok |-> FALSE]
    ELSE [e |-> [e EXCEPT !.models["on_off"] = Some(Len(e.actions)),
                          !.scalers["on_off"] = Some(Len(e.actions))],
          ok |-> TRUE]

\* PatternAnalyzer.train_color_model
train_color_model(e, fit_raises) ==
    LET color_actions == {i \in DOMAIN e.actions :
                             e.actions[i].action_type \in {"on", "color_change"}}
    IN  IF ~has_sufficient_data(e.actions) THEN [e |-> e, ok |-> FALSE]
        ELSE IF Cardinality(color_actions) < MIN_COLOR_ACTIONS THEN [e |-> e, ok |-> FALSE]
        ELSE IF fit_raises THEN [e |-> e, ok |-> FALSE]
        ELSE [e |-> [e EXCEPT !.models["color"] = Some(Len(e.actions)),
                              !.models["color_clusters"] = Some(Len(e.actions)),
                              !.scalers["color"] = Some(Len(e.actions))],
              ok |-> TRUE]

\* MLController.retrain_models; trained counts the sub-models that trained
retrain_models(e, on_off_raises, color_raises) ==
    IF ~has_sufficient_data(e.actions) THEN [e |-> e, ok |-> FALSE, trained |-> 0]
    ELSE LET on_off == train_on_off_model(e, on_off_raises)
             color == train_color_model(on_off.e, color_raises)
         IN  [e |-> color.e, ok |-> on_off.ok \/ color.ok,
              trained |-> (IF on_off.ok THEN 1 ELSE 0) + (IF color.ok THEN 1 ELSE 0)]

\* PatternAnalyzer.load_models, loaded being the models whose files exist
load_models(e, loaded) ==
    [e EXCEPT !.models = [name \in ModelNames |->
                             IF \/ name = "on_off" /\ "on_off" \in loaded
                                \/ name # "on_off" /\ "color" \in loaded
                             THEN Some(0) ELSE @[name]],
              !.scalers = [name \in ScalerNames |->
                             IF name \in loaded THEN Some(0) ELSE @[name]]]

\* the actions a user logs
LogInputs ==
    { [action_type |-> "on", brightness |-> 50, color |-> RGB(255, 255, 255),
       previous_state |-> FALSE],
      [action_type |-> "off", brightness |-> 50, color |-> RGB(255, 255, 255),
       previous_state |-> TRUE],
      [action_type |-> "color_change", brightness |-> 80, color |-> RGB(255, 0, 0),
       previous_state |-> TRUE] }

\* MLController.__init__: the models saved by an earlier process are loaded
LoadModels(loaded) ==
    /\ Internal
    /\ ev.op = "init"
    /\ LET e == load_models(Engine, loaded)
       IN  /\ models' = e.models
           /\ scalers' = e.scalers
    /\ ev' = [EvOf("load_models") EXCEPT !.pins = loaded]
    /\ fx' = NoEffects
    /\ UNCHANGED <<StandaloneVars, EngineVars, clock, actions>>

\* DataLogger.log_action
LogAction(a) ==
    /\ Internal
    /\ Len(actions) < MaxLog
    /\ actions' = log_action(actions, a.action_type, a.brightness, a.color,
                             a.previous_state, clock)
    /\ ev' = [Ev("log_action", a.brightness, a.color, 0, a.previous_state)
                EXCEPT !.pre = <<a.action_type>>]
    /\ fx' = NoEffects
    /\ UNCHANGED <<StandaloneVars, EngineVars, clock, models, scalers>>

\* MLController.retrain_models; ev.on is the value it returns, ev.b the
\* number of sub-models that trained
Retrain(on_off_raises, color_raises) ==
    /\ Internal
    /\ LET r == retrain_models(Engine, on_off_raises, color_raises)
       IN  /\ models' = r.e.models
           /\ scalers' = r.e.scalers
           /\ ev' = Ev("retrain", r.trained, Black, 0, r.ok)
    /\ fx' = NoEffects
    /\ UNCHANGED <<StandaloneVars, EngineVars, clock, actions>>

\* time passes
Wait ==
    /\ Internal
    /\ clock < MaxClock
    /\ clock' = clock + 1
    /\ ev' = EvOf("wait")
    /\ fx' = NoEffects
    /\ UNCHANGED <<StandaloneVars, EngineVars, MlVars>>

----------------------------------------------------------------------------
(* The button monitor thread of HardwareController and its callback threads *)

LampVars == <<phase, is_running, current_state, last_user_interaction, hw, snapshot,
              clock, autoOffAwake, potLast, mlLoops, flashes, lastManual,
              onSinceManual, diskFails, heldAtShutdown, LoopVars, MlVars>>

\* a debounce test that lets every press through
debounced_never(current_time, last_press) == TRUE

\* the debounce test of _monitor_buttons for a pin read LOW at current_time
debounced(current_time, last_press) ==
    current_time - last_press > BUTTON_DEBOUNCE_TIME

\* one pass of _monitor_buttons over the pins, low being the pins read LOW,
\* and its sleep(0.1)
ButtonPass(low) ==
    /\ Internal
    /\ phase = "running"
    /\ "buttons" \in alive
    /\ ticks < MaxTicks
    /\ LET fire(b) == b \in low /\ debounced(ticks, last_button_press[b])
       IN  /\ \A b \in Buttons : fire(b) => cbThreads[b] < MaxThreads
           /\ last_button_press' =
                 [b \in Buttons |-> IF fire(b) THEN ticks ELSE last_button_press[b]]
           /\ cbThreads' =
                 [b \in Buttons |-> IF fire(b) THEN cbThreads[b] + 1 ELSE cbThreads[b]]
    /\ ticks' = ticks + 1
    /\ ev' = [EvOf("button_poll") EXCEPT !.b = ticks, !.pins = low]
    /\ fx' = NoEffects
    /\ UNCHANGED <<StandaloneVars, LampVars, ref>>

ButtonPoll(low) ==
    /\ ButtonPass(low)
    /\ UNCHANGED pressCallbacks

\* the same pass, the callbacks started for each button counted from the
\* poll that last read it released
ButtonPollPress(low) ==
    /\ ButtonPass(low)
    /\ pressCallbacks' =
          [b \in Buttons |->
              IF b \notin low THEN 0
              ELSE IF debounced(ticks, last_button_press[b])
                   THEN pressCallbacks[b] + 1
                   ELSE pressCallbacks[b]]

\* a callback thread runs _on_main_switch_pressed, _on_color_button_pressed or
\* _on_mode_button_pressed.  The thread has no running event loop, so
\* asyncio.create_task raises RuntimeError and the coroutine it was given
\* (toggle_lamp, set_color, set_mode) never runs: the lamp is left as it was.
ButtonCallback(b) ==
    /\ Internal
    /\ phase = "running"
    /\ cbThreads[b] > 0
    /\ cbThreads' = [cbThreads EXCEPT ![b] = @ - 1]
    /\ ref' = button_event(RefWorld, b, clock).cs
    /\ ev' = EvOf(b)
    /\ fx' = NoEffects
    /\ UNCHANGED <<StandaloneVars, LampVars, ticks, last_button_press, pressCallbacks>>

----------------------------------------------------------------------------
(* The NeoPixel effect controller of src/app.py.  start_effect and turn_off *)
(* run on the thread of their caller, rainbow_cycle_animation on the        *)
(* animation thread; the two interleave between any two statements.         *)

NeoFrame == UNCHANGED <<phase, is_running, current_state, last_user_interaction, hw, snapshot,
                        clock, autoOffAwake, potLast, mlLoops, flashes, ticks,
                        last_button_press, pressCallbacks, cbThreads, ev, fx, ref, lastManual,
                        onSinceManual, budget, diskFails, heldAtShutdown, alive, actions,
                        models, scalers, manual>>

\* wheel(pos): a colour of the rainbow for pos in 0..255, never black
wheel(pos) ==
    IF pos < 85 THEN RGB(pos * 3, 255 - pos * 3, 0)
    ELSE IF pos < 170 THEN RGB(255 - (pos - 85) * 3, 0, (pos - 85) * 3)
    ELSE RGB(0, (pos - 170) * 3, 255 - (pos - 170) * 3)

NeoThreadAlive == neo.thread \notin {"none", "exited"}

\* start_effect("rainbow") with no animation thread alive: stop_animation
\* has nothing to join, then the thread is created and started
NeoStartEffect ==
    /\ neo.caller = "idle"
    /\ ~NeoThreadAlive
    /\ neo' = [neo EXCEPT !.current_effect = "rainbow", !.is_running = TRUE,
                          !.thread = "while", !.j = 0,
                          !.turned_off = FALSE, !.midIteration = FALSE]
    /\ NeoFrame

\* start_effect("rainbow") while a thread is alive: stop_animation clears
\* is_running and joins the thread
NeoStopAnimation ==
    /\ neo.caller = "idle"
    /\ NeoThreadAlive
    /\ neo' = [neo EXCEPT !.is_running = FALSE, !.caller = "join",
                          !.turned_off = FALSE, !.midIteration = FALSE]
    /\ NeoFrame

\* the join returns (an iteration is far shorter than the timeout of 1 s)
\* and start_effect goes on
NeoJoined ==
    /\ neo.caller = "join"
    /\ ~NeoThreadAlive
    /\ neo' = [neo EXCEPT !.current_effect = "rainbow", !.is_running = TRUE,
                          !.thread = "while", !.j = 0, !.caller = "idle"]
    /\ NeoFrame

\* turn_off, one statement a step: current_effect = "off"; is_running =
\* False; strip.fill((0, 0, 0)); strip.show().  No statement waits for the
\* animation thread.
NeoTurnOff ==
    /\ \/ /\ neo.caller = "idle"
          /\ neo' = [neo EXCEPT !.current_effect = "off", !.caller = "is_running",
                                !.turned_off = FALSE, !.midIteration = FALSE]
       \/ /\ neo.caller = "is_running"
          /\ neo' = [neo EXCEPT !.is_running = FALSE, !.caller = "fill"]
       \/ /\ neo.caller = "fill"
          /\ neo' = [neo EXCEPT !.pixels = [p \in Pixels |-> Black], !.caller = "show",
                                !.midIteration = neo.thread \in {"for", "show"}]
       \/ /\ neo.caller = "show"
          /\ neo' = [neo EXCEPT !.shown = neo.pixels, !.caller = "idle",
                                !.turned_off = TRUE]
    /\ NeoFrame

\* rainbow_cycle_animation, one statement a step: the test of the while
\* loop, one pixel of the for loop, strip.show(), and the sleep with the
\* increment of j
NeoAnimationStep ==
    /\ \/ /\ neo.thread = "while"
          /\ IF neo.is_running /\ neo.current_effect = "rainbow"
             THEN /\ neo.frames < MaxFrames
                  /\ neo' = [neo EXCEPT !.thread = "for", !.i = 0, !.frames = @ + 1]
             ELSE neo' = [neo EXCEPT !.thread = "exited"]
       \/ /\ neo.thread = "for"
          /\ neo' = [neo EXCEPT
                        !.pixels[neo.i] = wheel((((neo.i * 256) \div LED_COUNT) + neo.j) % 256),
                        !.i = @ + 1,
                        !.thread = IF neo.i + 1 < LED_COUNT THEN "for" ELSE "show"]
       \/ /\ neo.thread = "show"
          /\ neo' = [neo EXCEPT !.shown = neo.pixels, !.thread = "sleep"]
       \/ /\ neo.thread = "sleep"
          /\ neo' = [neo EXCEPT !.j = (@ + 1) % 256, !.thread = "while"]
    /\ NeoFrame

----------------------------------------------------------------------------
(* The stand-alone controller of src/manual_control/lamp_controller.py:     *)
(* button_loop, brightness_loop and auto_mode_loop are three threads on the *)
(* shared dictionary state and the PWM channels, with no lock.  A step is   *)
(* one statement of one thread; apply_color is two steps, its reads of      *)
(* state and its ChangeDutyCycle calls.  src/lamp_controller_WS2812B.py is  *)
(* the same program with a pixel strip for the PWM channels.                *)

ManualFrame == UNCHANGED <<phase, is_running, current_state, last_user_interaction, hw, snapshot,
                           clock, autoOffAwake, potLast, mlLoops, flashes, ticks,
                           last_button_press, pressCallbacks, cbThreads, ev, fx, ref, lastManual,
                           onSinceManual, budget, diskFails, heldAtShutdown, alive, actions,
                           models, scalers, neo>>

ManualAdc == {0, ADC_MAX_VALUE}

\* the duty cycles apply_color writes for the colour rgb at a brightness
apply_color(rgb, brightness) == [k \in 1..3 |-> rgb[k] * brightness]

\* a thread calls apply_color and goes on at the statement after
CallApplyColor(m, t, after) ==
    [m EXCEPT !.pc[t] = "apply_color", !.ret[t] = after]

\* apply_color on thread t: r, g, b and brightness are read from state, then
\* the three duty cycles are written; state["power"] is not read
ManualApplyColor(t) ==
    /\ \/ /\ manual.pc[t] = "apply_color"
          /\ manual' = [manual EXCEPT
                 !.local[t] = <<colors[manual.state.color_index + 1], manual.state.brightness>>,
                 !.pc[t] = "ChangeDutyCycle"]
       \/ /\ manual.pc[t] = "ChangeDutyCycle"
          /\ manual' = [manual EXCEPT
                 !.duty = apply_color(manual.local[t][1], manual.local[t][2]),
                 !.local[t] = << >>,
                 !.pc[t] = manual.ret[t], !.ret[t] = "none"]
    /\ ManualFrame

\* button_loop, one statement a step, with the levels GPIO.input returns to
\* that statement: the three tests of an iteration, then the three prev_
\* assignments (which also open the loop)
ManualButtonLoop(levels) ==
    LET t == "button_loop"
        edge(b) == levels[b] = "LOW" /\ manual.prev[b] = "HIGH"
    IN  /\ \/ /\ manual.pc[t] = "prev"
              /\ manual' = [manual EXCEPT !.prev = levels, !.pc[t] = "on_off"]
           \/ /\ manual.pc[t] = "on_off"
              /\ manual' = IF edge("BUTTON_ON_OFF")
                            THEN CallApplyColor([manual EXCEPT !.state.power = ~@], t, "color")
                            ELSE [manual EXCEPT !.pc[t] = "color"]
           \/ /\ manual.pc[t] = "color"
              /\ manual' = IF edge("BUTTON_COLOR") /\ ~manual.state.auto_mode
                            THEN CallApplyColor(
                                     [manual EXCEPT !.state.color_index = (@ + 1) % Len(colors)],
                                     t, "mode")
                            ELSE [manual EXCEPT !.pc[t] = "mode"]
           \/ /\ manual.pc[t] = "mode"
              /\ manual' = IF edge("BUTTON_MODE")
                            THEN [manual EXCEPT !.state.auto_mode = ~@, !.pc[t] = "prev"]
                            ELSE [manual EXCEPT !.pc[t] = "prev"]
        /\ ManualFrame

\* brightness_loop: the potentiometer is read, state["brightness"] set from
\* it, and apply_color called
ManualBrightnessLoop(adc_value) ==
    /\ manual.pc["brightness_loop"] = "read_adc"
    /\ manual' = CallApplyColor(
                     [manual EXCEPT !.state.brightness = (adc_value * 100) \div ADC_MAX_VALUE],
                     "brightness_loop", "read_adc")
    /\ ManualFrame

\* auto_mode_loop: with auto_mode and power set the colour index advances
\* and apply_color is called (the other branch only sleeps)
ManualAutoModeLoop ==
    /\ manual.pc["auto_mode_loop"] = "check"
    /\ manual.state.auto_mode /\ manual.state.power
    /\ manual' = CallApplyColor(
                     [manual EXCEPT !.state.color_index = (@ + 1) % Len(colors)],
                     "auto_mode_loop", "check")
    /\ ManualFrame

----------------------------------------------------------------------------

\* the coroutines of the event loop
NextLoop ==
    \/ Start
    \/ Shutdown
    \/ Restart
    \/ Tick
    \/ AutoOffStep
    \/ \E adc_value \in AdcValues : PotStep(adc_value)
    \/ \E p \in Predictions, c \in ColorPredictions : MlStep(p, c)
    \/ MlExit
    \/ \E alert \in Alerts : SensorAlert(alert)
    \/ \E i \in 1..MaxFlashes : FlashStep(i)
    \/ ApiToggle
    \/ \E color \in ApiColors : ApiSetColor(color)
    \/ \E brightness \in ApiBrightness : ApiSetBrightness(brightness)
    \/ \E mode \in ApiModes : ApiSetMode(mode)

\* the button monitor and its callback threads, beside mode commands
NextButtons ==
    \/ Start
    \/ \E mode \in ApiModes : ApiSetMode(mode)
    \/ \E low \in SUBSET Buttons : ButtonPoll(low)
    \/ \E b \in Buttons : ButtonCallback(b)

\* the life cycle, starts that fail included
NextLifecycle ==
    \/ Start
    \/ \E stage \in StartFailures : StartFails(stage)
    \/ Shutdown
    \/ Restart
    \/ Tick
    \/ \E mode \in ApiModes : ApiSetMode(mode)

\* the button monitor alone, each press followed from its falling edge
NextPress ==
    \/ Start
    \/ \E low \in SUBSET Buttons : ButtonPollPress(low)
    \/ \E b \in Buttons : ButtonCallback(b)

\* the NeoPixel effect controller: its caller and its animation thread
NextNeoPixel ==
    \/ NeoStartEffect
    \/ NeoStopAnimation
    \/ NeoJoined
    \/ NeoTurnOff
    \/ NeoAnimationStep

\* the stand-alone manual controller: its three threads
NextManual ==
    \/ \E levels \in [ManualButtons -> Levels] : ManualButtonLoop(levels)
    \/ \E adc_value \in ManualAdc : ManualBrightnessLoop(adc_value)
    \/ ManualAutoModeLoop
    \/ \E t \in ManualThreads : ManualApplyColor(t)

\* the program without button presses (as with MOCK_GPIO, where
\* _is_button_pressed is always False)
Spec == Init /\ [][NextLoop]_vars

\* the button monitor with the GPIO pins read
SpecButtons == Init /\ [][NextButtons]_vars

SpecPress == Init /\ [][NextPress]_vars

SpecLifecycle == Init /\ [][NextLifecycle]_vars

SpecNeoPixel == Init /\ [][NextNeoPixel]_vars

SpecManual == Init /\ [][NextManual]_vars

\* the loops while iterations raise
NextErrors ==
    \/ Start
    \/ Shutdown
    \/ Restart
    \/ \E loop \in Loops : LoopError(loop)
    \/ MlError
    \/ SensorCallbackError
    \/ Tick
    \/ AutoOffStep
    \/ \E adc_value \in AdcValues : PotStep(adc_value)
    \/ \E p \in Predictions, c \in ColorPredictions : MlStep(p, c)
    \/ MlExit
    \/ \E alert \in Alerts : SensorAlert(alert)
    \/ \E mode \in ApiModes : ApiSetMode(mode)

SpecErrors == Init /\ [][NextErrors]_vars

\* the potentiometer loop polling while commands arrive
NextPot ==
    \/ Start
    \/ Shutdown
    \/ Tick
    \/ \E adc_value \in AdcValues : PotPoll(adc_value)
    \/ PotReadError
    \/ ApiToggle
    \/ \E brightness \in ApiBrightness : ApiSetBrightness(brightness)
    \/ \E mode \in ApiModes : ApiSetMode(mode)

SpecPot == Init /\ [][NextPot]_vars

\* the sensor alerts, each handled in its own task, beside the switch
NextAlerts ==
    \/ Start
    \/ Tick
    \/ \E alert \in Alerts : SensorAlertOverlapping(alert)
    \/ \E i \in 1..MaxOverlap : FlashStep(i)
    \/ ApiToggle
    \/ \E mode \in ApiModes : ApiSetMode(mode)

SpecAlerts == Init /\ [][NextAlerts]_vars

\* the potentiometer conversion on every response of the ADC
NextAdc ==
    \E response1 \in AdcHighBytes, response2 \in AdcLowBytes :
        ReadPotentiometer(response1, response2)

SpecAdc == Init /\ [][NextAdc]_vars

\* the prediction engine: logging, training and time
NextEngine ==
    \/ \E loaded \in {{"on_off"}, {"color"}, {"on_off", "color"}} : LoadModels(loaded)
    \/ \E a \in LogInputs : LogAction(a)
    \/ \E on_off_raises, color_raises \in BOOLEAN : Retrain(on_off_raises, color_raises)
    \/ Wait

SpecEngine == Init /\ [][NextEngine]_vars

\* the commands of the exposed surface while side effects fail: colour
\* arguments the hardware drive raises on, and a snapshot file that cannot be
\* written
NextFaults ==
    \/ Start
    \/ Shutdown
    \/ Restart
    \/ \E fails \in BOOLEAN : SetDiskFault(fails)
    \/ ApiToggle
    \/ \E color \in ApiColors \cup MalformedColors : ApiSetColor(color)
    \/ \E brightness \in ApiBrightness : ApiSetBrightness(brightness)
    \/ \E mode \in ApiModes : ApiSetMode(mode)

SpecFaults == Init /\ [][NextFaults]_vars

----------------------------------------------------------------------------
(* Claims *)

InRange(x, lo, hi) == lo <= x /\ x <= hi

\* nothing is in progress: no flash sequence, no callback thread
Quiescent == flashes = << >> /\ \A b \in Buttons : cbThreads[b] = 0

\* C1: whenever nothing is in progress, the lamp state (is_on, brightness,
\* color, mode) equals the state obtained by applying the submitted events
\* one at a time, whole, in their arrival order.
C1_SerialEquivalence ==
    Quiescent => LampView(current_state) = LampView(ref)

\* C2: when the flash sequence of an earthquake alert has finished, and
\* nothing else changed the lamp in between, is_on, brightness, color and
\* mode are the values they had when the alert arrived.
C2_FlashRestores ==
    (ev.op = "flash_end" /\ ev.on) => LampView(current_state) = ev.pre

C4_AutoOffFires ==
    ~( /\ is_running
       /\ ~autoOffAwake
       /\ lastManual # NoTime
       /\ onSinceManual
       /\ clock - lastManual > AUTO_OFF_TIMEOUT_MINUTES )

\* C5: in every reachable state 0 <= brightness <= 100, in the lamp state
\* and in the snapshot that the next start loads.
C5_BrightnessInRange ==
    /\ InRange(current_state.brightness, 0, 100)
    /\ \A saved \in snapshot : InRange(saved.brightness, 0, 100)

C5_Witness ==
    ev.op = "set_brightness" /\ ev.b = 150 /\ current_state.brightness = 100

\* C6: in every reachable state each of the r, g, b channels of the lamp
\* color is in 0..255.
C6_ColorInRange ==
    /\ InRange(current_state.color.r, 0, 255)
    /\ InRange(current_state.color.g, 0, 255)
    /\ InRange(current_state.color.b, 0, 255)

OutOfRange(e) ==
    \/ e.op = "set_brightness" /\ ~InRange(e.b, 0, 100)
    \/ e.op = "set_color" /\ ~( /\ InRange(e.c.r, 0, 255)
                               /\ InRange(e.c.g, 0, 255)
                               /\ InRange(e.c.b, 0, 255) )

C8_Debounce ==
    [][\A b \in Buttons :
          /\ ( /\ ev'.op = "button_poll"
               /\ b \in ev'.pins
               /\ last_button_press[b] # 0
               /\ ev'.b - last_button_press[b] < BUTTON_DEBOUNCE_TIME )
             => /\ cbThreads'[b] = cbThreads[b]
                /\ last_button_press'[b] = last_button_press[b]
          /\ cbThreads'[b] > cbThreads[b]
             => /\ ev'.op = "button_poll"
                /\ b \in ev'.pins
                /\ cbThreads'[b] = cbThreads[b] + 1
                /\ ev'.b - last_button_press[b] > BUTTON_DEBOUNCE_TIME]_vars

C8_Witness ==
    /\ ev.op = "button_poll"
    /\ \E b \in ev.pins :
          /\ last_button_press[b] # 0
          /\ last_button_press[b] < ev.b
          /\ ev.b - last_button_press[b] < BUTTON_DEBOUNCE_TIME
          /\ cbThreads[b] = 0

Untouched ==
    /\ current_state' = current_state
    /\ hw' = hw
    /\ snapshot' = snapshot
    /\ fx' = NoEffects

\* C9 as stated: a prediction whose confidence is at or below the threshold
\* leaves the lamp state unchanged, with no hardware write and no
\* interaction record.
C9_GateExceeds ==
    [][(ev'.op = "prediction" /\ ev'.conf <= ML_PREDICTION_CONFIDENCE_THRESHOLD)
          => Untouched]_vars

\* C9 amended: a prediction is applied only if its confidence is at least
\* the threshold; one whose confidence is below the threshold leaves the
\* lamp state unchanged, with no hardware, snapshot or interaction-log write.
C9_GateAtLeast ==
    [][(ev'.op = "prediction" /\ ev'.conf < ML_PREDICTION_CONFIDENCE_THRESHOLD)
          => Untouched]_vars

C9_Witness ==
    /\ ev.op = "prediction"
    /\ ev.conf < ML_PREDICTION_CONFIDENCE_THRESHOLD
    /\ ev.on # current_state.is_on
    /\ fx = NoEffects

\* C10: a prediction that passes the gate and proposes the current is_on and
\* the current color changes nothing: no hardware write, no snapshot write,
\* no interaction record, lamp state as before.
C10_IdempotentPrediction ==
    [][( /\ ev'.op = "prediction"
         /\ ev'.conf >= ML_PREDICTION_CONFIDENCE_THRESHOLD
         /\ ev'.on = current_state.is_on
         /\ ev'.c = current_state.color )
          => Untouched]_vars

C10_Witness ==
    /\ ev.op = "prediction"
    /\ ev.conf >= ML_PREDICTION_CONFIDENCE_THRESHOLD
    /\ ev.on = current_state.is_on
    /\ ev.c = current_state.color
    /\ fx = NoEffects

\* C11: a color-button press handled while mode is auto leaves is_on,
\* brightness, color and mode as they were, submits no event (applied in
\* arrival order it changes nothing either) and leaves nothing behind that a
\* later return to manual could apply.
C11_ColorCycleGated ==
    [][/\ (ev'.op = "color_button" /\ current_state.mode = "auto") =>
             /\ LampView(current_state') = LampView(current_state)
             /\ fx' = NoEffects
             /\ cbThreads'["color_button"] = cbThreads["color_button"] - 1
       /\ (ev'.op = "color_button" /\ ref.mode = "auto") => ref' = ref]_vars

C11_Witness ==
    /\ ev.op = "color_button"
    /\ current_state.mode = "auto"
    /\ ref.mode = "auto"
    /\ Quiescent

\* C12: while mode is auto a potentiometer reading changes nothing in the
\* lamp state and makes no hardware write.
C12_PotentiometerGated ==
    [][(ev'.op \in {"potentiometer", "potentiometer_idle"} /\ current_state.mode = "auto") =>
          /\ current_state' = current_state
          /\ fx'.hw = 0]_vars

\* C13: the callback of a debounced main-switch press flips is_on, and the
\* callback of a debounced mode-button press advances the mode, in every mode.
C13_PressAccepted ==
    [][/\ ev'.op = "main_switch" => current_state'.is_on # current_state.is_on
       /\ ev'.op = "mode_button" => current_state'.mode = next_mode(current_state.mode)]_vars

\* C14: a prediction is applied to the lamp (a transition with trigger
\* ml_prediction is made) only while mode is auto.
C14_PredictionOnlyInAuto ==
    [][(ev'.op = "prediction" /\ fx'.hw > 0) => current_state.mode = "auto"]_vars

\* C15: an air-quality or temperature alert that arrives while mode is not
\* environmental leaves is_on, brightness, color and mode unchanged, with no
\* hardware, snapshot or interaction-log write.
C15_MinorAlertsGated ==
    [][(ev'.op \in {"air_quality", "temperature"} /\ current_state.mode # "environmental") =>
          /\ LampView(current_state') = LampView(current_state)
          /\ fx' = NoEffects]_vars

C15_Witness ==
    /\ ev.op = "air_quality"
    /\ current_state.mode = "auto"
    /\ fx = NoEffects

\* C16: a step writes an interaction record only if its transition has
\* trigger manual (toggle_lamp, set_color, set_brightness commands) or
\* ml_prediction; auto_timeout, alert, flash, potentiometer and restore
\* transitions write none.
C16_RecordsOnlyManualOrPrediction ==
    [][fx'.rec > 0 =>
          ev'.op \in {"toggle_lamp", "set_color", "set_brightness", "prediction"}]_vars

C16_Witness ==
    /\ ev.op \in {"potentiometer", "flash_step", "auto_timeout"}
    /\ fx.hw > 0
    /\ fx.rec = 0

\* C17: once shutdown has set is_running to false, is_on, brightness, color
\* and mode do not change any more while that process lives.
C17_NoTransitionAfterShutdown ==
    [][(phase = "down" /\ phase' = "down") =>
          LampView(current_state') = LampView(current_state)]_vars

\* C18: after a command's transition (set_lamp_state or an accepted
\* set_mode) during which the snapshot file could be written, the snapshot
\* is the in-memory lamp state.
C18_PersistedAfterTransition ==
    [][( /\ \/ ev'.op \in {"toggle_lamp", "set_color", "set_brightness"}
            \/ ev'.op = "set_mode" /\ ev'.on
         /\ ~diskFails )
          => snapshot' = {current_state'}]_vars

\* C19: shutdown persists the state it holds, and the start of the next
\* process (load, then restore) yields a lamp state whose is_on, brightness,
\* color and mode are the ones held at that shutdown.
C19_RestartRoundTrip ==
    [][/\ ev'.op = "shutdown" => snapshot' = {current_state}
       /\ (ev'.op = "start" /\ heldAtShutdown # None) =>
             Some(LampView(current_state')) = heldAtShutdown]_vars

\* C20: a command whose hardware call raises, or whose snapshot write fails,
\* still leaves its new values in the lamp state, and so does every command
\* after it: set_brightness the clamped brightness, set_color the color,
\* toggle_lamp the flipped is_on, nothing else changed.
C20_FailuresNotRolledBack ==
    [][/\ ev'.op = "set_brightness" =>
             current_state' = [current_state EXCEPT !.brightness = Clamp(ev'.b)]
       /\ ev'.op = "set_color" =>
             current_state' = [current_state EXCEPT !.color = ev'.c]
       /\ ev'.op = "toggle_lamp" =>
             current_state' = [current_state EXCEPT !.is_on = ~current_state.is_on]]_vars

\* a command whose hardware call raised: the new value is in memory, the
\* snapshot was not written
C20_Witness ==
    /\ ev.op \in {"set_color", "toggle_lamp"}
    /\ current_state.is_on
    /\ ~well_formed(current_state.color)
    /\ fx.hw = 1
    /\ fx.save = 0
    /\ ~diskFails

ErrorSteps ==
    {loop \o "_error" : loop \in Loops} \cup {"ml_error", "sensor_callback_error"}

\* C21: an exception raised inside an iteration of a monitoring loop
\* (potentiometer, auto-off, prediction, sensors, buttons) or inside a sensor
\* callback ends neither that loop nor another one nor the controller: the
\* same loops are alive afterwards, is_running and the lamp state are as
\* before.
C21_ErrorIsolation ==
    [][ev'.op \in ErrorSteps =>
          /\ alive' = alive
          /\ mlLoops' = mlLoops
          /\ is_running' = is_running
          /\ phase' = phase
          /\ current_state' = current_state]_vars

C21_Witness ==
    /\ ev.op = "ml_error"
    /\ mlLoops > 0
    /\ alive = Loops
    /\ is_running

ModeCycle == <<"manual", "auto", "environmental">>

\* C22: the callback of an accepted mode-button press moves the mode one step
\* along manual -> auto -> environmental -> manual (so three of them in a row
\* bring it back).
C22_ModeCycleOrder ==
    [][ev'.op = "mode_button" =>
          \E i \in 1..3 : /\ current_state.mode = ModeCycle[i]
                          /\ current_state'.mode = ModeCycle[(i % 3) + 1]]_vars

\* the same step on the state that applies every event whole, in arrival order
C22_ReferenceCycle ==
    [][ev'.op = "mode_button" =>
          \E i \in 1..3 : /\ ref.mode = ModeCycle[i]
                          /\ ref'.mode = ModeCycle[(i % 3) + 1]]_vars

\* C29: the callback of an accepted color-button press in manual mode, the
\* color being the i-th preset, makes the color the preset after it, the
\* first one after the last (so as many presses as there are presets bring
\* the color back).
C29_ColorCycleOrder ==
    [][(ev'.op = "color_button" /\ current_state.mode = "manual") =>
          \A i \in 1..Len(COLOR_PRESETS) :
              current_state.color = COLOR_PRESETS[i] =>
                 current_state'.color = COLOR_PRESETS[(i % Len(COLOR_PRESETS)) + 1]]_vars

\* the same step on the state that applies every event whole, in arrival order
C29_ReferenceCycle ==
    [][(ev'.op = "color_button" /\ ref.mode = "manual") =>
          \A i \in 1..Len(COLOR_PRESETS) :
              ref.color = COLOR_PRESETS[i] =>
                 ref'.color = COLOR_PRESETS[(i % Len(COLOR_PRESETS)) + 1]]_vars

\* the engine is eligible to train: enough actions are logged, and the first
\* one is at least the learning period old
Eligible ==
    /\ Len(actions) >= ML_MIN_DATA_POINTS
    /\ clock - actions[1].timestamp >= LearningPeriod

\* C23: a training request made while the engine is not eligible (too few
\* logged actions, or a first action younger than the learning period)
\* returns false and leaves the models and scalers as they were.
C23_TrainingGate ==
    [][(ev'.op = "retrain" /\ ~Eligible) =>
          /\ ~ev'.on
          /\ models' = models
          /\ scalers' = scalers]_vars

\* the gate on the number of actions alone
C23_CountGate ==
    [][(ev'.op = "retrain" /\ Len(actions) < ML_MIN_DATA_POINTS) =>
          /\ ~ev'.on
          /\ models' = models
          /\ scalers' = scalers]_vars

\* C24: a training run in which a sub-model fails to train (the run returns
\* false, or one of the on/off and color sub-models trains and the other
\* does not) leaves every model and scaler held before exactly as it was,
\* and the engine trained or untrained as it was.
C24_FailedTrainingKeepsModels ==
    [][(ev'.op = "retrain" /\ ev'.b < 2) =>
          /\ \A name \in ModelNames : models[name] # None => models'[name] = models[name]
          /\ \A name \in ScalerNames : scalers[name] # None => scalers'[name] = scalers[name]
          /\ (\E name \in ModelNames : models'[name] # None)
                <=> (\E name \in ModelNames : models[name] # None)]_vars

\* a run that returns false
C24_FalseKeepsModels ==
    [][(ev'.op = "retrain" /\ ~ev'.on) => (models' = models /\ scalers' = scalers)]_vars

\* C30: log_action makes the log one action longer; the new action is last
\* and carries the action type, brightness and color logged; the actions
\* logged before are unchanged, and training leaves the log alone.
C30_LogAppendOnly ==
    [][/\ ev'.op = "log_action" =>
             /\ Len(actions') = Len(actions) + 1
             /\ SubSeq(actions', 1, Len(actions)) = actions
             /\ LET last == actions'[Len(actions')]
                IN  /\ <<last.action_type>> = ev'.pre
                    /\ last.brightness = ev'.b
                    /\ <<last.color_r, last.color_g, last.color_b>>
                          = <<ev'.c.r, ev'.c.g, ev'.c.b>>
       /\ ev'.op \in {"retrain", "load_models", "wait"} => actions' = actions]_vars

C30_Witness ==
    /\ ev.op = "log_action"
    /\ Len(actions) = 3
    /\ actions[1].action_type = "on"
    /\ actions[3].action_type = "color_change"

\* C25: within one run of the potentiometer loop a brightness is emitted
\* only for a reading more than the noise threshold away from the value
\* emitted last, so two values emitted one after the other differ by more
\* than the threshold; a reading within the threshold changes neither the
\* lamp state nor the value remembered, drives no hardware and writes no
\* snapshot.
C25_NoiseThreshold ==
    [][/\ (ev'.op = "potentiometer" /\ potLast # None) =>
             /\ Abs(ev'.b - The(potLast)) > POT_NOISE_THRESHOLD
             /\ Abs(The(potLast') - The(potLast)) > POT_NOISE_THRESHOLD
       /\ (/\ ev'.op \in {"potentiometer", "potentiometer_idle"}
           /\ potLast # None
           /\ Abs(ev'.b - The(potLast)) <= POT_NOISE_THRESHOLD) =>
             /\ ev'.op = "potentiometer_idle"
             /\ current_state' = current_state
             /\ potLast' = potLast
             /\ snapshot' = snapshot
             /\ fx' = NoEffects]_vars

\* a reading exactly the threshold away from the value emitted last has
\* been dropped
C25_Witness ==
    /\ ev.op = "potentiometer_idle"
    /\ potLast # None
    /\ Abs(ev.b - The(potLast)) = POT_NOISE_THRESHOLD
    /\ current_state.is_on
    /\ current_state.brightness = The(potLast)

\* C26: an iteration of the potentiometer loop whose read fails gets the
\* brightness the hardware was last driven to, the loop stays alive, and
\* the lamp brightness is what it was.
C26_ReadFailureHarmless ==
    [][(ev'.op \in {"potentiometer", "potentiometer_idle"} /\ ev'.pre = <<"read_error">>) =>
          /\ ev'.b = hw.current_brightness
          /\ alive' = alive
          /\ is_running' = is_running
          /\ current_state'.brightness = current_state.brightness]_vars

\* the failed read itself: the cached value comes back and the loop lives on
C26_ReadFailureContained ==
    [][(ev'.op \in {"potentiometer", "potentiometer_idle"} /\ ev'.pre = <<"read_error">>) =>
          /\ ev'.b = hw.current_brightness
          /\ alive' = alive
          /\ is_running' = is_running]_vars

\* once the loop has emitted a value, a failed read leaves the brightness
C26_HarmlessAfterFirstEmit ==
    [][(/\ ev'.op \in {"potentiometer", "potentiometer_idle"}
        /\ ev'.pre = <<"read_error">>
        /\ potLast # None) =>
          current_state'.brightness = current_state.brightness]_vars

\* C27: for every raw reading v of the ADC, 0..1023, the brightness
\* read_potentiometer reports is the floor of v*100/1023 (the one b with
\* b*1023 <= v*100 < (b+1)*1023), lies in 0..100, is 0 for 0 and 100 for
\* 1023, and is no smaller than the brightness of any smaller reading.
C27_PotentiometerMapping ==
    [][ev'.op = "read_potentiometer" =>
          LET v == ev'.conf
              b == ev'.b
          IN  /\ v \in 0..ADC_MAX_VALUE
              /\ b * ADC_MAX_VALUE <= v * 100
              /\ v * 100 < (b + 1) * ADC_MAX_VALUE
              /\ b \in 0..100
              /\ v = 0 => b = 0
              /\ v = ADC_MAX_VALUE => b = 100
              /\ (ev.op = "read_potentiometer" /\ ev.conf <= v) => ev.b <= b]_vars

\* the top of the range has been read
C27_Witness ==
    /\ ev.op = "read_potentiometer"
    /\ ev.conf = ADC_MAX_VALUE
    /\ ev.b = 100

\* C28: set_mode with a name outside manual, auto and environmental leaves
\* the mode, auto_mode_enabled and the rest of the lamp state as they were,
\* starts no prediction loop, drives no hardware and writes no snapshot.
C28_InvalidModeRejected ==
    [][(ev'.op = "set_mode" /\ ~ev'.on) =>
          /\ current_state' = current_state
          /\ mlLoops' = mlLoops
          /\ snapshot' = snapshot
          /\ hw' = hw
          /\ last_user_interaction' = last_user_interaction
          /\ fx' = NoEffects]_vars

\* an invalid mode has been refused while the lamp was in auto mode
C28_Witness ==
    /\ ev.op = "set_mode"
    /\ ~ev.on
    /\ current_state.mode = "auto"
    /\ mlLoops = 1

\* C31: an air-quality alert that is let through switches the colour to the
\* warning hue if the lamp is on, and leaves the lamp state, stored colour
\* included, as it was if the lamp is off.
C31_AirQualityOnlyWhileOn ==
    [][(ev'.op = "air_quality" /\ ev'.on) =>
          IF current_state.is_on
          THEN current_state'.color = WarningColor
          ELSE current_state' = current_state]_vars

\* the half of it about a lamp that is on
C31_WarningWhileOn ==
    [][(ev'.op = "air_quality" /\ ev'.on /\ current_state.is_on) =>
          /\ current_state'.color = WarningColor
          /\ current_state'.is_on]_vars

\* C32: whatever the sequence of mode changes and restarts, at most one
\* prediction monitoring loop is alive at any time.
C32_AtMostOnePredictionLoop == mlLoops <= 1

\* C33: at most one _emergency_flash sequence is in progress at any time,
\* and no sequence in progress holds a colour of the flash (red or black) as
\* the colour to restore.
C33_FlashesDoNotOverlap ==
    /\ Len(flashes) <= 1
    /\ \A i \in DOMAIN flashes : flashes[i].original_color \notin {EmergencyColor, Black}

\* a flash that starts while no other is in progress holds the colour the
\* lamp had before
C33_LoneFlashKeepsColor ==
    [][(ev'.op = "earthquake" /\ ev'.on /\ flashes = << >>) =>
          /\ Len(flashes') = 1
          /\ flashes'[1].original_color = current_state.color
          /\ flashes'[1].original_state = current_state.is_on]_vars

\* C34: a button pressed once and held down, however long, starts exactly
\* one callback: no button has started more than one callback since it was
\* last read released.
C34_OneCallbackPerPress == \A b \in Buttons : pressCallbacks[b] <= 1

\* a held button starts no second callback within the debounce time
C34_HeldWithinDebounce ==
    [][(ev.op = "button_poll" /\ ev'.op = "button_poll") =>
          \A b \in ev.pins \cap ev'.pins :
              (last_button_press[b] # 0 /\ ev'.b - last_button_press[b] <= BUTTON_DEBOUNCE_TIME)
                 => cbThreads'[b] = cbThreads[b]]_vars

\* C35: in every reachable state auto_mode_enabled is true exactly when the
\* mode is not manual, in the lamp state and in the snapshot saved of it.
C35_ModeFlagConsistent ==
    /\ current_state.auto_mode_enabled <=> current_state.mode # "manual"
    /\ snapshot # None =>
          (The(snapshot).auto_mode_enabled <=> The(snapshot).mode # "manual")

\* a process started from a snapshot taken in environmental mode
C35_Witness ==
    /\ ev.op = "start"
    /\ current_state.mode = "environmental"
    /\ current_state.auto_mode_enabled
    /\ mlLoops = 1

\* C36: after every step that drove the hardware through set_lamp_state,
\* the hardware controller's is_lamp_on, current_brightness and
\* current_color equal the lamp state's is_on, brightness and color.
C36_HardwareMirrorsState ==
    [][fx'.hw > 0 =>
          /\ hw'.is_lamp_on = current_state'.is_on
          /\ hw'.current_brightness = current_state'.brightness
          /\ hw'.current_color = current_state'.color]_vars

\* a colour set on a lamp that is off has reached the hardware
C36_Witness ==
    /\ ev.op = "set_color"
    /\ fx.hw = 1
    /\ ~current_state.is_on
    /\ ~hw.is_lamp_on
    /\ hw.current_color = ev.c
    /\ hw.current_brightness = DEFAULT_BRIGHTNESS

\* C37: a command whose hardware drive raises inside set_lamp_state still
\* writes its transition to the snapshot (the file being writable), so the
\* snapshot is the in-memory state afterwards.
C37_SnapshotDespiteHardwareFailure ==
    [][( /\ ev'.op \in {"toggle_lamp", "set_color", "set_brightness"}
         /\ fx'.hw > 0
         /\ hw_raises(current_state'.is_on, current_state'.color)
         /\ ~diskFails )
          => /\ fx'.save > 0
             /\ snapshot' = {current_state'}]_vars

\* a command whose hardware drive does not raise writes the snapshot
C37_SnapshotWithoutFailure ==
    [][( /\ ev'.op \in {"toggle_lamp", "set_color", "set_brightness"}
         /\ fx'.hw > 0
         /\ ~hw_raises(current_state'.is_on, current_state'.color)
         /\ ~diskFails )
          => /\ fx'.save > 0
             /\ snapshot' = {current_state'}]_vars

\* C38: after shutdown() has returned, also when start() called it on its
\* failure path before is_running was set, no monitoring task, no sensor
\* loop and no button monitor is alive.
C38_ShutdownStopsProducers ==
    [][ev'.op \in {"shutdown", "start_failed"} =>
          /\ alive' = {}
          /\ mlLoops' = 0]_vars

\* the shutdown of a running controller
C38_RunningShutdownStops ==
    [][ev'.op = "shutdown" =>
          /\ alive' = {}
          /\ mlLoops' = 0
          /\ ~is_running']_vars

\* C39: once turn_off() has returned and the animation thread has exited,
\* every pixel of the strip, in its buffer and as last shown, is (0, 0, 0),
\* however turn_off() interleaved with an iteration of the animation loop.
C39_DarkAfterTurnOff ==
    (neo.turned_off /\ neo.caller = "idle" /\ ~NeoThreadAlive)
        => \A p \in Pixels : neo.pixels[p] = Black /\ neo.shown[p] = Black

\* C39, the part the code keeps: the strip is dark after turn_off() when
\* the animation thread was outside its loop body as turn_off() filled it
C39_DarkOutsideIteration ==
    (neo.turned_off /\ neo.caller = "idle" /\ ~NeoThreadAlive /\ ~neo.midIteration)
        => \A p \in Pixels : neo.pixels[p] = Black /\ neo.shown[p] = Black

\* C40: whenever state["power"] is false the LED output is dark, all duty
\* cycles zero, whatever the interleaving of the three threads.
C40_DarkWhilePowerOff ==
    ~manual.state.power => manual.duty = Dark

\* C40, the part the code keeps: the output is dark until apply_color has
\* first written it, and at brightness 0
C40_LitOnlyByApplyColor ==
    manual.duty # Dark =>
        \E idx \in 1..Len(colors), adc_value \in ManualAdc :
            /\ (adc_value * 100) \div ADC_MAX_VALUE > 0
            /\ manual.duty = apply_color(colors[idx], (adc_value * 100) \div ADC_MAX_VALUE)

====
